---- MODULE Spec2Model ----
\* Transfer buffers of coco-device: the Buffer base class (header / data
\* layout, start variants, cancel, acquire, the until-awaitables), the waiter
\* lists of StateTasks and the BufferDevice_cout driver with its transfer
\* queue and event-loop callback.
\*
\* Application coroutines are the tasks.  A coroutine that is resumed by a
\* notification runs synchronously inside the notifying call, so the model
\* keeps a stack of the running contexts: the bottom frame is what the event
\* loop called, every frame above it is a coroutine resumed by the doAll()
\* of the frame below.
EXTENDS Integers, Sequences, FiniteSets, TLC

\* ---------------------------------------------------------------- bounds
\* total capacity (bytes) of the region given to buffer b1
MaxCapacity == 4
\* total capacity (bytes) of the region given to buffer b2
SmallCapacity == 2
\* byte values are 0..MaxByte
MaxByte == 1
\* the fields one BufferWriter writes
MaxFields == 2
\* the largest array (bytes) a BufferWriter is constructed over
MaxRegion == 16

\* the buffers of the device and the application coroutines; b3 is a buffer
\* whose region is as large as the range of Properties::headerSize
Buffers == {"b1", "b2", "b3"}
Tasks == {"t1", "t2"}

\* ------------------------------------------------------ program constants
\* Buffer::State
DISABLED == 0
READY == 1
BUSY == 2

\* Buffer::Events
ENTER_DISABLED == 1
ENTER_READY == 2
ENTER_BUSY == 4
ENTER_ANY == 7

\* Buffer::Op
OP_NONE == 0
OP_READ == 1
OP_WRITE == 2
OP_READ_WRITE == 3
OP_ERASE == 4

\* BufferDevice_cout::Buffer::cancel: transfers with stored size below this
\* are cancelled immediately
CancelLimit == 4

\* width of Properties::headerSize (uint16_t)
HeaderBits == 65536

\* Device::State
DEV_DISABLED == 0
DEV_CLOSING == 1
DEV_OPENING == 2
DEV_READY == 3

\* Device::Events
DEV_ENTER_DISABLED == 1
DEV_ENTER_CLOSING == 2
DEV_ENTER_OPENING == 4
DEV_ENTER_READY == 8
DEV_ENTER_ANY == 15

VARIABLES
    p,          \* Buffer::p per buffer: [data, capacity, size, headerSize]
    st,         \* Buffer::st per buffer and Device::st: [state, tasks]
    op,         \* BufferDevice_cout::Buffer::op per buffer
    transfers,  \* BufferDevice_cout::transfers (queue of buffers)
    scheduled,  \* the handle() callback is pending in the event loop
    stack,      \* running contexts, innermost last
    halted,     \* a failed assert() aborted the program (a build with assertions)
    ev,         \* what the last step did (call, arguments' effect, result)
    cancelReq,  \* per buffer: cancel() was called on the BUSY buffer since its
                \* last accepted start
    reading,    \* per coroutine: the locals of its readData() coroutine frame
    codec       \* a BufferWriter and a BufferReader over one memory region

vars == <<p, st, op, transfers, scheduled, stack, halted, ev, cancelReq, reading, codec>>

\* ---------------------------------------------------------------- helpers
NoBuf == "none"
Handler == "handler"
Driver == "driver"

\* the key of Device::st among the waiter lists
Dev == "dev"

\* everything that has a state and a list of waiting coroutines
Lists == Buffers \cup {Dev}

Bytes == 0..MaxByte

Min(a, b) == IF a < b THEN a ELSE b

RECURSIVE BitAnd(_, _)
BitAnd(a, b) ==
    IF a = 0 \/ b = 0 THEN 0
    ELSE (a % 2) * (b % 2) + 2 * BitAnd(a \div 2, b \div 2)

\* unsigned(x) > c for an int x and a capacity c below 2^31: a negative x
\* converts to a value of at least 2^31
UGreater(x, c) == x < 0 \/ x > c

\* std::min(uint32_t(x), c) for an int x
UMin(x, c) == IF UGreater(x, c) THEN c ELSE x

\* a source array handed to the buffer by the application
Source(v) == [i \in 0..(MaxCapacity + SmallCapacity) |-> (v + i) % (MaxByte + 1)]

\* std::copy(src, src + n, data + at)
CopyIn(data, src, at, n) ==
    [i \in DOMAIN data |-> IF i >= at /\ i < at + n THEN src[i - at] ELSE data[i]]

\* int Buffer::size() const
Size(b) == p[b].size - p[b].headerSize

\* int Buffer::capacity() const
Capacity(b) == p[b].capacity - p[b].headerSize

\* ev: f the call, b its buffer, pre the buffer's state before the step, val
\* the returned value, via the until-call of an await, failed whether an
\* assert() of the call was violated, done whether the step completed a
\* transfer and n the transferred count of that completion (or the int a
\* call returned), arg the size argument of the call, v its source array,
\* out the bytes it copied out and src the offset from p.data it read them at
NoEvent ==
    [f |-> "none", b |-> NoBuf, pre |-> DISABLED, val |-> "none", via |-> "none",
     failed |-> FALSE, done |-> FALSE, n |-> 0, arg |-> 0, v |-> 0, out |-> <<>>,
     src |-> 0]

Call(f, b, val, failed) ==
    [f |-> f, b |-> b, pre |-> st[b].state, val |-> val, via |-> "none",
     failed |-> failed, done |-> FALSE, n |-> 0, arg |-> 0, v |-> 0, out |-> <<>>,
     src |-> 0]

\* the record of a call with its size argument and its source array
CallArg(f, b, val, failed, arg, v) ==
    [Call(f, b, val, failed) EXCEPT !.arg = arg, !.v = v]

NoCont == [b |-> NoBuf, via |-> "none"]

\* the codec before a writer is constructed: mem the bytes, current / end
\* the writer, rcurrent / rend the reader, log the fields written, idx the
\* next field the reader takes, ok no write failed, last the last operation
\* mem is the array under the writer and the memory behind it
NoCodec ==
    [phase |-> "none",
     mem |-> [i \in 0..(MaxRegion + 8 * MaxFields + 7) |-> 0], current |-> 0,
     end |-> 0, rcurrent |-> 0, rend |-> 0, log |-> <<>>, idx |-> 1,
     ok |-> TRUE,
     last |-> [kind |-> "none",
               f |-> [op |-> "none", x |-> 0, hi |-> 0, s |-> <<>>, n |-> 0],
               at |-> 0, after |-> 0, end |-> 0, failed |-> FALSE,
               touched |-> {}, x |-> 0, hi |-> 0, s |-> <<>>]]

\* no readData() in progress; else b the buffer, size and headerSize the
\* locals of the call, dst the array behind its data pointer, requested the
\* size argument as it was passed
NoRead ==
    [active |-> FALSE, b |-> NoBuf, size |-> 0, headerSize |-> 0, dst |-> <<>>,
     requested |-> 0]

Frame(who) == [who |-> who, pending |-> {}, nbuf |-> NoBuf, cont |-> NoCont]

Top == stack[Len(stack)]

\* the coroutines that are in a running context
OnStack == {stack[i].who : i \in DOMAIN stack}

\* the coroutines registered in the waiter list of b
Waiting(b) == {st[b].tasks[i].task : i \in DOMAIN st[b].tasks}

\* task t is the innermost running context, between two calls
Running(t) ==
    /\ ~halted
    /\ stack # <<>>
    /\ Top.who = t
    /\ Top.pending = {}
    /\ Top.cont = NoCont
    /\ ~reading[t].active

\* replace the innermost frame
SetTop(f) == [stack EXCEPT ![Len(stack)] = f]

\* -------------------------------------------------------------------- Init
\* the capacity each buffer is constructed with; data has one more cell, the
\* byte that follows the region in memory
CapacityOf(b) ==
    CASE b = "b1" -> MaxCapacity
      [] b = "b2" -> SmallCapacity
      [] OTHER -> HeaderBits

\* the bytes that are modelled: those of the large buffer are not
Cells(b) == IF CapacityOf(b) = HeaderBits THEN {} ELSE 0..CapacityOf(b)

\* Buffer::Buffer(uint8_t *data, int capacity, State state)
NewBuffer(b) ==
    [data |-> [i \in Cells(b) |-> 0], capacity |-> CapacityOf(b),
     size |-> 0, headerSize |-> 0]

\* a device constructed in state ds with buffers constructed in state s
Construct(ds, s) ==
    /\ p = [b \in Buffers |-> NewBuffer(b)]
    /\ st = [k \in Lists |-> [state |-> IF k = Dev THEN ds ELSE s, tasks |-> <<>>]]
    /\ op = [b \in Buffers |-> OP_NONE]
    /\ transfers = <<>>
    /\ scheduled = FALSE
    /\ stack = <<>>
    /\ halted = FALSE
    /\ cancelReq = [b \in Buffers |-> FALSE]
    /\ reading = [t \in Tasks |-> NoRead]
    /\ codec = NoCodec

\* BufferDevice_cout: the device and its buffers are constructed READY
Init ==
    /\ Construct(DEV_READY, READY)
    /\ ev = NoEvent

\* ------------------------------------------------------- region layout
\* argument values of the size- and header-changing calls on buffer b2
SizeArgs == (-1)..(SmallCapacity + 1)

\* Buffer::headerResize(int size): the new properties
headerResize(pb, n) ==
    [pb EXCEPT !.headerSize = UMin(n, pb.capacity) % HeaderBits]

\* Buffer::setHeader(const uint8_t *data, int size)
setHeader(pb, src, n) ==
    LET size == IF UGreater(n, pb.capacity)
                THEN (IF n > 0 THEN pb.capacity ELSE 0)
                ELSE n
    IN [pb EXCEPT !.headerSize = size % HeaderBits,
                  !.data = CopyIn(@, src, 0, size)]

\* Buffer::clearHeader()
clearHeader(pb) == [pb EXCEPT !.headerSize = 0]

\* an index accepted only below the current size
IndexOkSize(pb, i) == i + pb.headerSize >= 0 /\ i + pb.headerSize < pb.size

\* Buffer::operator [](int index): assert(unsigned(index) < this->p.capacity)
\* after index += headerSize
IndexOk(pb, i) == ~(i + pb.headerSize < 0) /\ i + pb.headerSize < pb.capacity

\* an array over the whole memory, header included
allWithHeader(pb) == [data |-> 0, size |-> pb.capacity]

\* Buffer::all(): the offset from p.data of the array's first byte and the
\* array's length
all(pb) == [data |-> pb.headerSize, size |-> pb.capacity - pb.headerSize]

\* BufferReader(const T &buffer) over a Buffer: current = std::data(buffer),
\* end = current + std::size(buffer), as offsets from p.data
BufferReaderOf(pb) ==
    [current |-> pb.headerSize, end |-> pb.headerSize + (pb.size - pb.headerSize)]

\* Buffer::getHeader(uint8_t *data, int size): the clamped size it returns
\* and the offset from p.data of the first byte it copies
getHeader(pb, n) ==
    LET size == IF UGreater(n, pb.headerSize)
                THEN (IF n > 0 THEN pb.headerSize ELSE 0)
                ELSE n
    IN [size |-> size, src |-> 0 - size]

\* the byte sequences of length n
RECURSIVE ByteSeqs(_)
ByteSeqs(n) ==
    IF n <= 0 THEN {<<>>}
    ELSE {Append(o, x) : o \in ByteSeqs(n - 1), x \in Bytes}

\* the bytes a copy of n bytes from offset at of the memory of a buffer can
\* deliver: the stored bytes inside the memory, any bytes outside of it
ReadOut(data, at, n) ==
    {o \in ByteSeqs(n) :
        \A i \in 1..n : (at + i - 1) \in DOMAIN data => o[i] = data[at + i - 1]}

\* Buffer::resize(int size)
resize(pb, n) == [pb EXCEPT !.size = UMin(n + pb.headerSize, pb.capacity)]

\* Buffer::clear()
clear(pb) == [pb EXCEPT !.size = pb.headerSize]

\* Buffer::start(int size, Op op): the size it stores before start(op)
startSize(pb, n) ==
    LET size == n + pb.headerSize
    IN [pb EXCEPT !.size = IF UGreater(size, pb.capacity)
                           THEN (IF size > 0 THEN pb.capacity ELSE 0)
                           ELSE size]

\* Buffer::start(const uint8_t *end, Op op) with e = end - p.data; the
\* difference is unsigned, so a clamped value is always positive
startEnd(pb, e) ==
    [pb EXCEPT !.size = IF UGreater(e, pb.capacity) THEN pb.capacity ELSE e]

\* a size that is not clamped to the capacity
ClampDataNone(pb, n) == n

\* the clamped size of Buffer::writeData / Buffer::readData
ClampData(pb, n) ==
    LET capacity == pb.capacity - pb.headerSize
    IN IF UGreater(n, capacity) THEN (IF n > 0 THEN capacity ELSE 0) ELSE n

\* a writeData that copies to the start of the buffer memory
writeDataOverHeader(pb, src, n) ==
    [pb EXCEPT !.size = pb.headerSize + ClampData(pb, n),
               !.data = CopyIn(@, src, 0, ClampData(pb, n))]

\* Buffer::writeData(const void *data, int size, Op op) up to start(op)
writeData(pb, src, n) ==
    [pb EXCEPT !.size = pb.headerSize + ClampData(pb, n),
               !.data = CopyIn(@, src, pb.headerSize, ClampData(pb, n))]

\* Buffer::readData(void *data, int size, Op op) up to start(op)
readData(pb, n) == [pb EXCEPT !.size = pb.headerSize + ClampData(pb, n)]

\* a writeValue that stores the value at the start of the buffer memory
writeValueOverHeader(pb, src, k) ==
    [pb EXCEPT !.size = pb.headerSize + k,
               !.data = CopyIn(@, src, 0, k)]

\* Buffer::writeValue(const T &value, Op op) with k = sizeof(T), when it fits
writeValue(pb, src, k) ==
    [pb EXCEPT !.size = pb.headerSize + k,
               !.data = CopyIn(@, src, pb.headerSize, k)]

\* ------------------------------------------------------ waiter registry
\* the events an until-call registers for
EventsOf(via) ==
    CASE via = "untilDisabled" -> ENTER_DISABLED
      [] via = "untilReady" -> ENTER_READY
      [] via = "untilStateChanged" -> ENTER_ANY
      [] OTHER -> ENTER_READY + ENTER_DISABLED

\* an until-call that returns at once only in READY state
SatisfiedReadyOnly(via, s) == s = READY

\* the test an until-call makes before it registers
Satisfied(via, s) ==
    CASE via = "untilDisabled" -> s = DISABLED
      [] via = "untilReady" -> s = READY
      [] via = "untilStateChanged" -> FALSE
      [] OTHER -> s = READY \/ s = DISABLED

\* a notification that resumes every registered coroutine
doAllEvery(b, events) == {st[b].tasks[i].task : i \in DOMAIN st[b].tasks}

\* StateTasks::doAll(events): the registered coroutines the call resumes
doAll(b, events) ==
    {st[b].tasks[i].task : i \in {j \in DOMAIN st[b].tasks :
                                    BitAnd(events, st[b].tasks[j].events) # 0}}

\* remove the waiter at position i of a list
RemoveAt(seq, i) == SubSeq(seq, 1, i - 1) \o SubSeq(seq, i + 1, Len(seq))

\* a cancel that leaves the buffer in the transfer queue
RemoveBufKeep(seq, b) == seq

\* remove a buffer from the transfer queue
RemoveBuf(seq, b) == SelectSeq(seq, LAMBDA x : x # b)

\* a completion that stores the transferred count without the header
setReadyNoHeader(pb, transferred) == [pb EXCEPT !.size = transferred]

\* a completion that keeps the stored size
setReadyKeepSize(pb, transferred) == pb

\* Buffer::setReady(int transferred): the new properties
setReadyTransferred(pb, transferred) ==
    [pb EXCEPT !.size = pb.headerSize + transferred]

\* a driver context that notified: it stays on the stack while coroutines
\* are resumed
Notifier(who, b, pending) ==
    IF pending = {} THEN <<>>
    ELSE <<[who |-> who, pending |-> pending, nbuf |-> b, cont |-> NoCont]>>

\* ------------------------------------------------- application coroutines
\* the event loop resumes a coroutine that waits for nothing of a buffer
TaskRun(t) ==
    /\ ~halted
    /\ stack = <<>>
    /\ \A b \in Lists : t \notin Waiting(b)
    /\ stack' = <<Frame(t)>>
    /\ ev' = NoEvent
    /\ UNCHANGED <<p, st, op, transfers, scheduled, halted, cancelReq, reading, codec>>

\* the running coroutine suspends on something else or ends
Yield(t) ==
    /\ Running(t)
    /\ stack' = SubSeq(stack, 1, Len(stack) - 1)
    /\ ev' = NoEvent
    /\ UNCHANGED <<p, st, op, transfers, scheduled, halted, cancelReq, reading, codec>>

\* a call of task t that changes the layout of b and notifies nobody; a
\* violated assert() aborts the program in a build with assertions and is
\* compiled out otherwise
LayoutCall(t, b, f, newP, failed, arg, v) ==
    /\ Running(t)
    /\ \/ failed /\ halted' = TRUE /\ p' = p
       \/ halted' = halted /\ p' = [p EXCEPT ![b] = newP]
    /\ ev' = CallArg(f, b, "none", failed, arg, v)
    /\ UNCHANGED <<st, op, transfers, scheduled, stack, cancelReq, reading, codec>>

HeaderResize(t, b, n) ==
    LayoutCall(t, b, "headerResize", headerResize(p[b], n), UGreater(n, p[b].capacity),
               n, 0)

SetHeader(t, b, v, n) ==
    LayoutCall(t, b, "setHeader", setHeader(p[b], Source(v), n), FALSE, n, v)

\* Buffer::setHeader(const T &header) with k = sizeof(T)
SetHeaderValue(t, b, v, k) ==
    LayoutCall(t, b, "setHeaderValue",
               IF k > p[b].capacity THEN p[b] ELSE setHeader(p[b], Source(v), k),
               k > p[b].capacity, k, v)

ClearHeader(t, b) ==
    LayoutCall(t, b, "clearHeader", clearHeader(p[b]), FALSE, 0, 0)

\* Buffer::getHeader(uint8_t *data, int size) called by task t
GetHeader(t, b, n) ==
    LET r == getHeader(p[b], n)
    IN /\ Running(t)
       /\ \E o \in ReadOut(p[b].data, r.src, r.size) :
             ev' = [CallArg("getHeader", b, "none", FALSE, n, 0)
                       EXCEPT !.n = r.size, !.out = o, !.src = r.src]
       /\ UNCHANGED <<p, st, op, transfers, scheduled, stack, halted, cancelReq, reading, codec>>

\* the indices tried on the small buffer
IndexArgs == (0 - SmallCapacity - 1)..(SmallCapacity + 1)

\* Buffer::operator [](int index) called by task t: a violated assert()
\* aborts the program or is compiled out, and then the byte at the index is
\* returned, any byte when the index is outside the memory
Index(t, b, i) ==
    LET at == i + p[b].headerSize
        failed == ~IndexOk(p[b], i)
    IN /\ Running(t)
       /\ \/ /\ failed
             /\ halted' = TRUE
             /\ ev' = CallArg("index", b, "none", TRUE, i, 0)
          \/ /\ halted' = halted
             /\ \E x \in Bytes :
                   /\ at \in DOMAIN p[b].data => x = p[b].data[at]
                   /\ ev' = [CallArg("index", b, "none", failed, i, 0) EXCEPT !.n = x]
       /\ UNCHANGED <<p, st, op, transfers, scheduled, stack, cancelReq, reading, codec>>

Resize(t, b, n) ==
    LayoutCall(t, b, "resize", resize(p[b], n),
               UGreater(n + p[b].headerSize, p[b].capacity), n, 0)

Clear(t, b) ==
    LayoutCall(t, b, "clear", clear(p[b]), FALSE, 0, 0)

\* co_await of the awaitable of an until-call on b by the running task t:
\* no suspension when the state already satisfies it, else t is registered
AwaitOn(t, b, via) ==
    /\ IF Satisfied(via, st[b].state)
       THEN /\ stack' = SetTop([Top EXCEPT !.cont = NoCont])
            /\ st' = st
       ELSE /\ stack' = SubSeq(stack, 1, Len(stack) - 1)
            /\ st' = [st EXCEPT ![b].tasks =
                        Append(@, [task |-> t, events |-> EventsOf(via), via |-> via])]
    /\ ev' = [f |-> "await", b |-> b, pre |-> st[b].state,
              val |-> IF Satisfied(via, st[b].state) THEN "ready" ELSE "suspended",
              via |-> via, failed |-> FALSE, done |-> FALSE, n |-> 0, arg |-> 0, v |-> 0, out |-> <<>>,
              src |-> 0]

\* Buffer::untilDisabled / untilReady / untilReadyOrDisabled / untilStateChanged
Until(t, b, via) ==
    /\ Running(t)
    /\ AwaitOn(t, b, via)
    /\ UNCHANGED <<p, op, transfers, scheduled, halted, cancelReq, reading, codec>>

\* the untilReadyOrDisabled() that ends a convenience call, evaluated when
\* the call it follows has returned
AwaitStep(t) ==
    /\ ~halted
    /\ stack # <<>>
    /\ Top.who = t
    /\ Top.pending = {}
    /\ Top.cont # NoCont
    /\ AwaitOn(t, Top.cont.b, Top.cont.via)
    /\ UNCHANGED <<p, op, transfers, scheduled, halted, cancelReq, reading, codec>>

\* CoroutineTaskList::doAll inside a notifying call: the next registered
\* coroutine of the call's snapshot is removed from the list and resumed
ResumeNext ==
    /\ ~halted
    /\ stack # <<>>
    /\ Top.pending # {}
    /\ LET b == Top.nbuf
           i == CHOOSE j \in DOMAIN st[b].tasks :
                    /\ st[b].tasks[j].task \in Top.pending
                    /\ \A k \in 1..(j - 1) : st[b].tasks[k].task \notin Top.pending
           w == st[b].tasks[i]
       IN /\ st' = [st EXCEPT ![b].tasks = RemoveAt(@, i)]
          /\ stack' = [k \in DOMAIN stack |->
                          [stack[k] EXCEPT !.pending = @ \ {w.task}]]
                      \o <<Frame(w.task)>>
          /\ ev' = [f |-> "resume", b |-> b, pre |-> st[b].state, val |-> w.task,
                    via |-> w.via, failed |-> FALSE, done |-> FALSE, n |-> 0, arg |-> 0, v |-> 0, out |-> <<>>,
                    src |-> 0]
    /\ UNCHANGED <<p, op, transfers, scheduled, halted, cancelReq, reading, codec>>

\* the notifying driver call returns to the event loop
Return ==
    /\ ~halted
    /\ stack # <<>>
    /\ Top.who \notin Tasks
    /\ Top.pending = {}
    /\ stack' = SubSeq(stack, 1, Len(stack) - 1)
    /\ ev' = NoEvent
    /\ UNCHANGED <<p, st, op, transfers, scheduled, halted, cancelReq, reading, codec>>

\* ------------------------------------------------------ BufferDevice_cout
\* the untilReadyOrDisabled() of a convenience call, named by what its
\* start(op) returned: "transfer" after true, "refused" after false or when
\* start was not called
Started(accepted) == IF accepted THEN "transfer" ELSE "refused"

\* a start that refuses only a DISABLED buffer
NotReadyOnlyDisabled(s) == s = DISABLED

\* a start without the assertion on BUSY
AssertNotBusyOff(s) == TRUE

\* a start that does not enqueue the buffer
PushNothing(seq, b) == seq

\* BufferDevice_cout::Buffer::start: if (this->st.state != State::READY)
NotReady(s) == s # READY

\* BufferDevice_cout::Buffer::start: assert(this->st.state != State::BUSY)
AssertNotBusy(s) == s # BUSY

\* BufferDevice_cout::Buffer::start: assert((op & Op::READ_WRITE) != 0)
AssertReadWrite(o) == BitAnd(o, OP_READ_WRITE) # 0

\* a push at the front of the queue
PushFront(seq, b) == <<b>> \o seq

\* IntrusiveQueue::push: the queue with the buffer added at its end
Push(seq, b) == Append(seq, b)

\* a cancel that compares the data size
CancellableData(pb) == pb.size - pb.headerSize < CancelLimit

\* BufferDevice_cout::Buffer::cancel: if (this->p.size < 4)
Cancellable(pb) == pb.size < CancelLimit

\* BufferDevice_cout::Buffer::start(Op op) called by task t, after the
\* calling variant f stored the properties pb; aw: the variant is a
\* convenience call that ends with untilReadyOrDisabled()
start(t, b, pb, o, f, aw, arg, v) ==
    LET s == st[b].state
        failed == IF NotReady(s) THEN ~AssertNotBusy(s) ELSE ~AssertReadWrite(o)
        cont == IF aw THEN [b |-> b, via |-> Started(~NotReady(s))] ELSE NoCont
    IN
    /\ Running(t)
    /\ p' = [p EXCEPT ![b] = pb]
    /\ \/ /\ failed
          /\ halted' = TRUE
          /\ ev' = CallArg(f, b, "none", TRUE, arg, v)
          /\ UNCHANGED <<st, op, transfers, scheduled, stack, cancelReq>>
       \/ /\ halted' = halted
          /\ IF NotReady(s)
             THEN /\ ev' = CallArg(f, b, "false", failed, arg, v)
                  /\ stack' = SetTop([Top EXCEPT !.cont = cont])
                  /\ UNCHANGED <<st, op, transfers, scheduled, cancelReq>>
             ELSE /\ op' = [op EXCEPT ![b] = o]
                  /\ transfers' = Push(transfers, b)
                  /\ scheduled' = (scheduled \/ transfers = <<>>)
                  /\ st' = [st EXCEPT ![b].state = BUSY]
                  /\ stack' = SetTop([Top EXCEPT !.pending = doAll(b, ENTER_BUSY),
                                                 !.nbuf = b, !.cont = cont])
                  /\ cancelReq' = [cancelReq EXCEPT ![b] = FALSE]
                  /\ ev' = CallArg(f, b, "true", failed, arg, v)
    /\ codec' = codec

\* start(op), startRead(op), startWrite(op); read(op), write(op), erase()
Start(t, b, o, aw) ==
    /\ start(t, b, p[b], o, "start", aw, 0, 0)
    /\ reading' = reading

\* Buffer::erase(): start(Op::ERASE), then untilReadyOrDisabled()
Erase(t, b) ==
    /\ start(t, b, p[b], OP_ERASE, "erase", TRUE, 0, 0)
    /\ reading' = reading

\* start(size, op), startRead(size), startWrite(size); read(size), write(size)
StartSize(t, b, n, o, aw) ==
    /\ start(t, b, startSize(p[b], n), o, "startSize", aw, n, 0)
    /\ reading' = reading

\* start(end, op), startWrite(end); write(end)
StartEnd(t, b, e, o, aw) ==
    /\ start(t, b, startEnd(p[b], e), o, "startEnd", aw, e, 0)
    /\ reading' = reading

WriteData(t, b, v, n) ==
    /\ start(t, b, writeData(p[b], Source(v), n), OP_WRITE, "writeData", TRUE, n, v)
    /\ reading' = reading

\* BufferWriter w(buffer.all()), k bytes written, then buffer.write(w): the
\* writer converts to its current pointer, the end handed to start(end, op)
WriteWriter(t, b, k) ==
    /\ start(t, b, startEnd(p[b], all(p[b]).data + k), OP_WRITE, "writeWriter", TRUE, k, 0)
    /\ reading' = reading

\* the arrays a caller of readData() passes to be filled
Dsts == {[i \in 1..(SmallCapacity + 1) |-> (v + i) % (MaxByte + 1)] : v \in Bytes}

\* Buffer::readData(void *data, int size, Op op) up to its co_await; d is the
\* array behind data
ReadData(t, b, n, d) ==
    /\ start(t, b, readData(p[b], n), OP_READ, "readData", TRUE, n, 0)
    /\ reading' = [reading EXCEPT ![t] =
                      [active |-> TRUE, b |-> b, size |-> ClampData(p[b], n),
                       headerSize |-> p[b].headerSize, dst |-> d, requested |-> n]]

\* a copy that starts at the start of the buffer memory
CopyOutFromStart(dst, data, at, n) ==
    [i \in 1..Len(dst) |-> IF i <= n THEN data[i - 1] ELSE dst[i]]

\* std::copy(src, src + n, dst) from offset at of the buffer memory: the
\* array behind dst afterwards
CopyOut(dst, data, at, n) ==
    [i \in 1..Len(dst) |-> IF i <= n THEN data[at + i - 1] ELSE dst[i]]

\* Buffer::readData after its co_await: the copy to the caller's array, which
\* ends the coroutine
ReadCopy(t) ==
    LET r == reading[t]
    IN /\ ~halted
       /\ stack # <<>>
       /\ Top.who = t
       /\ Top.pending = {}
       /\ Top.cont = NoCont
       /\ r.active
       /\ ev' = [CallArg("readCopy", r.b, "none", FALSE, r.requested, 0)
                    EXCEPT !.n = r.size,
                           !.out = CopyOut(r.dst, p[r.b].data, r.headerSize, r.size)]
       /\ reading' = [reading EXCEPT ![t] = NoRead]
       /\ UNCHANGED <<p, st, op, transfers, scheduled, stack, halted, cancelReq, codec>>

\* Buffer::writeValue(const T &value, Op op) with k = sizeof(T)
WriteValue(t, b, v, k) ==
    IF p[b].headerSize + k <= p[b].capacity
    THEN /\ start(t, b, writeValue(p[b], Source(v), k), OP_WRITE, "writeValue", TRUE, k, v)
         /\ reading' = reading
    ELSE /\ Running(t)
         /\ \/ halted' = TRUE /\ stack' = stack
            \/ /\ halted' = halted
               /\ stack' = SetTop([Top EXCEPT !.cont = [b |-> b, via |-> Started(FALSE)]])
         /\ ev' = CallArg("writeValue", b, "none", TRUE, k, v)
         /\ UNCHANGED <<p, st, op, transfers, scheduled, cancelReq, reading, codec>>

\* Buffer::writeArray(const T &array, Op op) with k = count * sizeof(*src)
WriteArray(t, b, v, k) ==
    IF p[b].headerSize + k > p[b].capacity
    THEN /\ Running(t)
         /\ \/ halted' = TRUE /\ stack' = stack
            \/ /\ halted' = halted
               /\ stack' = SetTop([Top EXCEPT !.cont = [b |-> b, via |-> Started(FALSE)]])
         /\ ev' = CallArg("writeArray", b, "false", TRUE, k, v)
         /\ UNCHANGED <<p, st, op, transfers, scheduled, cancelReq, reading, codec>>
    ELSE /\ start(t, b, writeValue(p[b], Source(v), k), OP_WRITE, "writeArray", TRUE, k, v)
         /\ reading' = reading

\* a cancel that returns early only on a DISABLED buffer
NotBusyOnlyDisabled(s) == s = DISABLED

\* BufferDevice_cout::Buffer::cancel: if (this->st.state != State::BUSY)
NotBusy(s) == s # BUSY

\* BufferDevice_cout::Buffer::cancel() called by task t; aw: as the first
\* half of Buffer::acquire()
cancel(t, b, aw) ==
    LET f == IF aw THEN "acquire" ELSE "cancel"
        cont == IF aw THEN [b |-> b, via |-> f] ELSE NoCont
    IN
    /\ Running(t)
    /\ IF NotBusy(st[b].state)
       THEN /\ ev' = Call(f, b, "false", FALSE)
            /\ stack' = SetTop([Top EXCEPT !.cont = cont])
            /\ UNCHANGED <<p, st, transfers, cancelReq>>
       ELSE IF Cancellable(p[b])
       THEN /\ transfers' = RemoveBuf(transfers, b)
            /\ p' = [p EXCEPT ![b] = setReadyTransferred(@, 0)]
            /\ st' = [st EXCEPT ![b].state = READY]
            /\ stack' = SetTop([Top EXCEPT !.pending = doAll(b, ENTER_READY),
                                           !.nbuf = b, !.cont = cont])
            /\ cancelReq' = [cancelReq EXCEPT ![b] = TRUE]
            /\ ev' = [Call(f, b, "true", FALSE) EXCEPT !.done = TRUE, !.n = 0]
       ELSE /\ ev' = Call(f, b, "true", FALSE)
            /\ stack' = SetTop([Top EXCEPT !.cont = cont])
            /\ cancelReq' = [cancelReq EXCEPT ![b] = TRUE]
            /\ UNCHANGED <<p, st, transfers>>
    /\ UNCHANGED <<op, scheduled, halted, reading, codec>>

Cancel(t, b) == cancel(t, b, FALSE)

\* Buffer::acquire()
Acquire(t, b) == cancel(t, b, TRUE)

\* a handler that does not schedule itself again
MoreTransfersNever(rest) == FALSE

\* BufferDevice_cout::handle: if (!this->transfers.empty()) the callback is
\* scheduled again
MoreTransfers(rest) == rest # <<>>

\* BufferDevice_cout::handle(), called by the event loop
Handle ==
    /\ ~halted
    /\ stack = <<>>
    /\ scheduled
    /\ IF transfers = <<>>
       THEN /\ scheduled' = FALSE
            /\ ev' = [NoEvent EXCEPT !.f = "handle"]
            /\ UNCHANGED <<st, transfers, stack>>
       ELSE LET b == Head(transfers)
            IN /\ transfers' = Tail(transfers)
               /\ scheduled' = MoreTransfers(Tail(transfers))
               /\ st' = [st EXCEPT ![b].state = READY]
               /\ stack' = Notifier(Handler, b, doAll(b, ENTER_READY))
               /\ ev' = [Call("handle", b, "none", FALSE) EXCEPT !.done = TRUE, !.n = Size(b)]
    /\ UNCHANGED <<p, op, halted, cancelReq, reading, codec>>

\* ------------------------------------------------------- owning device
\* Buffer::setDisabled(): the new properties
setDisabled(pb) == [pb EXCEPT !.size = 0]

\* the owning device disables a READY buffer: Buffer::setDisabled()
DeviceSetDisabled(b) ==
    /\ ~halted
    /\ stack = <<>>
    /\ st[b].state = READY
    /\ p' = [p EXCEPT ![b] = setDisabled(@)]
    /\ st' = [st EXCEPT ![b].state = DISABLED]
    /\ stack' = Notifier(Driver, b, doAll(b, ENTER_DISABLED))
    /\ ev' = Call("setDisabled", b, "none", FALSE)
    /\ UNCHANGED <<op, transfers, scheduled, halted, cancelReq, reading, codec>>

\* the owning device enables a DISABLED buffer: Buffer::setReady()
DeviceSetReady(b) ==
    /\ ~halted
    /\ stack = <<>>
    /\ st[b].state = DISABLED
    /\ st' = [st EXCEPT ![b].state = READY]
    /\ stack' = Notifier(Driver, b, doAll(b, ENTER_READY))
    /\ ev' = Call("setReady", b, "none", FALSE)
    /\ UNCHANGED <<p, op, transfers, scheduled, halted, cancelReq, reading, codec>>

\* ------------------------------------------------------------------ Device
DevStates == {DEV_DISABLED, DEV_CLOSING, DEV_OPENING, DEV_READY}

\* the Events value ENTER_<state>: 1 << state, for Buffer and for Device
EnterEvent(s) == 2 ^ s

\* a buffer that is constructed READY only for a READY device
BufferStateOfReadyOnly(ds) == IF ds = DEV_READY THEN READY ELSE DISABLED

\* Buffer::Buffer(uint8_t *data, int capacity, Device::State state): the
\* state of a buffer constructed from the state of its device
BufferStateOf(ds) == IF ds <= DEV_CLOSING THEN DISABLED ELSE READY

\* the events a Device::until-call registers for
DevEventsOf(via) ==
    CASE via = "untilDisabled" -> DEV_ENTER_DISABLED
      [] via = "untilReady" -> DEV_ENTER_READY
      [] via = "untilStateChanged" -> DEV_ENTER_ANY
      [] OTHER -> DEV_ENTER_READY + DEV_ENTER_DISABLED

\* the test a Device::until-call makes before it registers
DevSatisfied(via, s) ==
    CASE via = "untilDisabled" -> s = DEV_DISABLED
      [] via = "untilReady" -> s = DEV_READY
      [] via = "untilStateChanged" -> FALSE
      [] OTHER -> s = DEV_READY \/ s = DEV_DISABLED

\* co_await Device::untilDisabled / untilReady / untilReadyOrDisabled /
\* untilStateChanged by the running task t
DevUntil(t, via) ==
    /\ Running(t)
    /\ IF DevSatisfied(via, st[Dev].state)
       THEN /\ stack' = stack
            /\ st' = st
       ELSE /\ stack' = SubSeq(stack, 1, Len(stack) - 1)
            /\ st' = [st EXCEPT ![Dev].tasks =
                        Append(@, [task |-> t, events |-> DevEventsOf(via), via |-> via])]
    /\ ev' = [Call("await", Dev, IF DevSatisfied(via, st[Dev].state)
                                 THEN "ready" ELSE "suspended", FALSE)
              EXCEPT !.via = via]
    /\ UNCHANGED <<p, op, transfers, scheduled, halted, cancelReq, reading, codec>>

\* a close() that disables the device at once
OnCloseDirect == DEV_DISABLED

\* the state close() puts a READY device in
OnClose == DEV_CLOSING

\* StateTasks::set(state, events) on Device::st, called from the event loop
\* by the device when it is in state from
DevSet(f, from, to) ==
    /\ ~halted
    /\ stack = <<>>
    /\ st[Dev].state = from
    /\ st' = [st EXCEPT ![Dev].state = to]
    /\ stack' = Notifier(Driver, Dev, doAll(Dev, EnterEvent(to)))
    /\ ev' = Call(f, Dev, "none", FALSE)
    /\ UNCHANGED <<p, op, transfers, scheduled, halted, cancelReq, reading, codec>>

\* open(): DISABLED -> OPENING
DevOpen == DevSet("open", DEV_DISABLED, DEV_OPENING)

\* the device is ready: OPENING -> READY
DevOpened == DevSet("opened", DEV_OPENING, DEV_READY)

\* open fails: OPENING -> DISABLED
DevOpenFailed == DevSet("openFailed", DEV_OPENING, DEV_DISABLED)

\* close(): READY -> CLOSING
DevClose == DevSet("close", DEV_READY, OnClose)

\* the device is disabled: CLOSING -> DISABLED
DevClosed == DevSet("closed", DEV_CLOSING, DEV_DISABLED)

\* a device constructed in any state, its buffers constructed from that state
InitDevice ==
    \E ds \in DevStates :
        /\ Construct(ds, BufferStateOf(ds))
        /\ ev = [NoEvent EXCEPT !.f = "construct", !.n = ds]

\* ----------------------------------------------- BufferWriter, BufferReader
\* A cursor over the byte array mem: current and end are offsets from the
\* start of the array, touched collects the offsets the operation accessed,
\* failed records assert(false), and x / hi / s carry what a read returned.
\* A uint32_t is represented by the int32_t that has the same bits, a
\* uint64_t by its two 32 bit halves (x the lower, hi the upper one).
Cursor(mem, current, end) ==
    [mem |-> mem, current |-> current, end |-> end, failed |-> FALSE,
     touched |-> {}, x |-> 0, hi |-> 0, s |-> <<>>]

\* conversion to uint8_t
U8(v) == v % 256

\* value >> k
Shr(v, k) == v \div (2 ^ k)

\* conversion to uint16_t
ToU16(v) == v % 65536

ToI16Unsigned(v) == v % 65536

\* conversion to int16_t
ToI16(v) == IF v % 65536 >= 32768 THEN (v % 65536) - 65536 ELSE v % 65536

\* current[k] = v
Store(K, k, v) ==
    [K EXCEPT !.mem = [@ EXCEPT ![K.current + k] = U8(v)],
              !.touched = @ \cup {K.current + k}]

\* this->current += n
Advance(K, n) == [K EXCEPT !.current = @ + n]

\* int(this->end - this->current)
remaining(K) == K.end - K.current

\* std::copy(data, data + size, this->current)
Copy(K, data, size) ==
    [K EXCEPT !.mem = [i \in DOMAIN K.mem |->
                          IF i >= K.current /\ i < K.current + size
                          THEN data[i - K.current + 1] ELSE K.mem[i]],
              !.touched = @ \cup (K.current..(K.current + size - 1))]

Writer_u8(K, value) == Advance(Store(K, 0, value), 1)

Writer_i16L(K, value) ==
    Advance(Store(Store(K, 0, value), 1, Shr(value, 8)), 2)

Writer_i16B(K, value) ==
    Advance(Store(Store(K, 0, Shr(value, 8)), 1, value), 2)

Writer_u16L(K, value) == Writer_i16L(K, ToI16(value))

Writer_u16B(K, value) == Writer_i16B(K, ToI16(value))

Writer_u24B(K, value) ==
    Advance(Store(Store(Store(K, 0, Shr(value, 16)), 1, Shr(value, 8)), 2, value), 3)

Writer_i32L(K, value) ==
    Advance(Store(Store(Store(Store(K, 0, value), 1, Shr(value, 8)),
                        2, Shr(value, 16)), 3, Shr(value, 24)), 4)

Writer_i32B(K, value) ==
    Advance(Store(Store(Store(Store(K, 0, Shr(value, 24)), 1, Shr(value, 16)),
                        2, Shr(value, 8)), 3, value), 4)

Writer_u32L(K, value) == Writer_i32L(K, value)

Writer_u32B(K, value) == Writer_i32B(K, value)

Writer_u64L(K, lo, hi) == Writer_i32L(Writer_i32L(K, lo), hi)

Writer_u64B(K, lo, hi) == Writer_i32B(Writer_i32B(K, hi), lo)

\* sizeof(value) <= remaining(): the int is converted to size_t, so a
\* negative remaining() compares as a huge number
SizeFits(size, rem) == IF rem < 0 THEN TRUE ELSE size <= rem

Writer_value(K, bytes) ==
    IF SizeFits(Len(bytes), remaining(K))
    THEN Advance(Copy(K, bytes, Len(bytes)), Len(bytes))
    ELSE [K EXCEPT !.failed = TRUE]

Writer_array(K, bytes) ==
    IF SizeFits(Len(bytes), remaining(K))
    THEN Advance(Copy(K, bytes, Len(bytes)), Len(bytes))
    ELSE [K EXCEPT !.failed = TRUE]

Writer_data(K, data, size) ==
    IF size >= 0 /\ size <= remaining(K)
    THEN Advance(Copy(K, data, size), size)
    ELSE [K EXCEPT !.failed = TRUE]

Writer_skip(K, n) == Advance(K, n)

Writer_fill(K, n, value) ==
    Advance([K EXCEPT !.mem = [i \in DOMAIN K.mem |->
                                  IF i >= K.current /\ i < K.current + n
                                  THEN U8(value) ELSE K.mem[i]],
                      !.touched = @ \cup (K.current..(K.current + n - 1))], n)

\* string(str, size); ndebug: the build compiles assert() away, so the fill
\* runs also after data() failed
Writer_stringPadded(K, str, size, ndebug) ==
    LET l == Min(Len(str), size)
        d == Writer_data(K, str, l)
    IN  IF d.failed /\ ~ndebug THEN d ELSE Writer_fill(d, size - l, 0)

Writer_string8NoLength(K, str) == Writer_data(K, str, Len(str))

Writer_string8(K, str) == Writer_data(Writer_u8(K, Len(str)), str, Len(str))

\* current[k]
At(K, k) == K.mem[K.current + k]

\* the bytes current[0] .. current[n - 1] are read
Load(K, n) == [K EXCEPT !.touched = @ \cup (K.current..(K.current + n - 1))]

Reader_u8(K) == [Advance(Load(K, 1), 1) EXCEPT !.x = At(K, 0)]

Reader_i16L(K) ==
    [Advance(Load(K, 2), 2) EXCEPT !.x = ToI16(At(K, 0) + At(K, 1) * 256)]

Reader_i16B(K) ==
    [Advance(Load(K, 2), 2) EXCEPT !.x = ToI16(ToU16(At(K, 0) * 256 + At(K, 1)))]

Reader_u16L(K) == [Reader_i16L(K) EXCEPT !.x = ToU16(@)]

Reader_u16B(K) == [Reader_i16B(K) EXCEPT !.x = ToU16(@)]

\* the int32_t with the bytes b0 (lowest) .. b3 (highest)
Int32Of(b0, b1, b2, b3) ==
    b0 + b1 * 256 + b2 * 65536 + (IF b3 >= 128 THEN b3 - 256 ELSE b3) * 16777216

Reader_i32L(K) ==
    [Advance(Load(K, 4), 4) EXCEPT
        !.x = Int32Of(At(K, 0), At(K, 1), At(K, 2), At(K, 3))]

Reader_i32B(K) ==
    [Advance(Load(K, 4), 4) EXCEPT
        !.x = Int32Of(At(K, 3), At(K, 2), At(K, 1), At(K, 0))]

Reader_u32L(K) == Reader_i32L(K)

Reader_u32B(K) == Reader_i32B(K)

Reader_u64L(K) ==
    LET lo == Reader_u32L(K)
        hi == Reader_u32L(lo)
    IN  [hi EXCEPT !.x = lo.x, !.hi = hi.x]

Reader_u64B(K) ==
    LET hi == Reader_u32B(K)
        lo == Reader_u32B(hi)
    IN  [lo EXCEPT !.x = lo.x, !.hi = hi.x]

\* string(int length): the String refers to current[0 .. length - 1]
Reader_string(K, length) ==
    [Advance(Load(K, length), length) EXCEPT
        !.s = [i \in 1..length |-> At(K, i - 1)]]

Reader_string8(K) ==
    LET l == Reader_u8(K)
    IN  [Reader_string(l, l.x) EXCEPT !.x = 0]

Reader_skip(K, n) == Advance(K, n)

\* the fields of the model: op the method, x / hi the integer argument, s
\* the string or the bytes of the argument, n the size or count argument
Field(o, x, hi, s, n) == [op |-> o, x |-> x, hi |-> hi, s |-> s, n |-> n]

\* the write calls of the model: 1337, 0x8000, 0xffce as uint16_t, -50 and
\* the smallest int16_t, 0x123456 and 0xffffff for 24 bits, 0x12345678,
\* INT32_MAX, INT32_MIN and 0xdeadbeef as uint32_t, 0 and 0xbaadcafe as
\* the halves of a uint64_t, the strings "", "a", "ab"
Fields ==
    {Field("u8", v, 0, <<>>, 0) : v \in {10, 255}}
    \cup {Field(o, v, 0, <<>>, 0) : o \in {"u16L", "u16B"}, v \in {1337, 32768, 65486}}
    \cup {Field(o, v, 0, <<>>, 0) : o \in {"i16L", "i16B"}, v \in {1337, 0 - 32768, 0 - 50}}
    \cup {Field("u24B", v, 0, <<>>, 0) : v \in {1193046, 16777215}}
    \cup {Field(o, v, 0, <<>>, 0) :
              o \in {"u32L", "u32B"},
              v \in {305419896, 2147483647, 0 - 2147483647 - 1, 0 - 559038737}}
    \cup {Field(o, lo, hi, <<>>, 0) :
              o \in {"u64L", "u64B"},
              lo \in {0, 0 - 1163015426}, hi \in {0, 0 - 1163015426}}
    \cup {Field("string8", 0, 0, s, 0) : s \in {<<>>, <<97>>, <<97, 98>>}}
    \cup {Field("string", 0, 0, s, n) : s \in {<<>>, <<97>>, <<97, 98>>}, n \in {1, 3}}
    \cup {Field("data", 0, 0, <<1, 2, 3>>, n) : n \in {0 - 1, 0, 2}}
    \cup {Field("value", 0, 0, s, 0) : s \in {<<57>>, <<57, 5, 0, 0>>}}
    \cup {Field("array", 0, 0, <<10, 50>>, 0)}
    \cup {Field("fill", v, 0, <<>>, n) : v \in {255}, n \in 1..2}
    \cup {Field("skip", 0, 0, <<>>, n) : n \in 1..2}

\* the writer method f.op applied to the cursor K
WriterOp(K, f, ndebug) ==
    CASE f.op = "u8" -> Writer_u8(K, f.x)
      [] f.op = "i16L" -> Writer_i16L(K, f.x)
      [] f.op = "i16B" -> Writer_i16B(K, f.x)
      [] f.op = "u16L" -> Writer_u16L(K, f.x)
      [] f.op = "u16B" -> Writer_u16B(K, f.x)
      [] f.op = "u24B" -> Writer_u24B(K, f.x)
      [] f.op = "u32L" -> Writer_u32L(K, f.x)
      [] f.op = "u32B" -> Writer_u32B(K, f.x)
      [] f.op = "u64L" -> Writer_u64L(K, f.x, f.hi)
      [] f.op = "u64B" -> Writer_u64B(K, f.x, f.hi)
      [] f.op = "string8" -> Writer_string8(K, f.s)
      [] f.op = "string" -> Writer_stringPadded(K, f.s, f.n, ndebug)
      [] f.op = "data" -> Writer_data(K, f.s, f.n)
      [] f.op = "value" -> Writer_value(K, f.s)
      [] f.op = "array" -> Writer_array(K, f.s)
      [] f.op = "fill" -> Writer_fill(K, f.n, f.x)
      [] f.op = "skip" -> Writer_skip(K, f.n)

\* the reader method that takes the field f back out of the bytes
ReaderOp(K, f) ==
    CASE f.op = "u8" -> Reader_u8(K)
      [] f.op = "i16L" -> Reader_i16L(K)
      [] f.op = "i16B" -> Reader_i16B(K)
      [] f.op = "u16L" -> Reader_u16L(K)
      [] f.op = "u16B" -> Reader_u16B(K)
      [] f.op = "u24B" -> Reader_skip(K, 3)
      [] f.op = "u32L" -> Reader_u32L(K)
      [] f.op = "u32B" -> Reader_u32B(K)
      [] f.op = "u64L" -> Reader_u64L(K)
      [] f.op = "u64B" -> Reader_u64B(K)
      [] f.op = "string8" -> Reader_string8(K)
      [] f.op = "string" -> Reader_string(K, f.n)
      [] f.op = "data" -> Reader_string(K, f.n)
      [] f.op = "value" -> Reader_string(K, Len(f.s))
      [] f.op = "array" -> Reader_string(K, Len(f.s))
      [] f.op = "fill" -> Reader_skip(K, f.n)
      [] f.op = "skip" -> Reader_skip(K, f.n)

\* what the last codec operation did: at and after the cursor before and
\* after it, end the end of its cursor
Did(kind, f, K0, K) ==
    [kind |-> kind, f |-> f, at |-> K0.current, after |-> K.current,
     end |-> K0.end, failed |-> K.failed, touched |-> K.touched,
     x |-> K.x, hi |-> K.hi, s |-> K.s]

\* uint8_t buffer[n]; BufferWriter w(buffer, n): the array is not
\* initialized, junk is what its bytes and the bytes behind it hold
NewBufferWriter(n, junk) ==
    /\ ~halted
    /\ codec.phase = "none"
    /\ codec' = [codec EXCEPT !.phase = "write",
                              !.mem = [i \in DOMAIN @ |-> junk],
                              !.current = 0, !.end = n]
    /\ UNCHANGED <<p, st, op, transfers, scheduled, stack, halted, ev,
                   cancelReq, reading>>

\* one write method of the BufferWriter; a failed assert aborts the program
\* or, compiled away, lets it run on
WriterStep(f) ==
    /\ ~halted
    /\ codec.phase = "write"
    /\ Len(codec.log) < MaxFields
    /\ \E ndebug \in BOOLEAN :
          LET K0 == Cursor(codec.mem, codec.current, codec.end)
              K == WriterOp(K0, f, ndebug)
          IN  /\ ndebug \/ K.failed
              /\ codec' = [codec EXCEPT !.mem = K.mem, !.current = K.current,
                                        !.log = Append(@, f),
                                        !.ok = @ /\ ~K.failed,
                                        !.last = Did("write", f, K0, K)]
              /\ halted' = ~ndebug
    /\ UNCHANGED <<p, st, op, transfers, scheduled, stack, ev, cancelReq,
                   reading>>

\* BufferReader r(buffer, w): the writer's cursor is the end of the reader;
\* the program reads back what it wrote without a failure
NewBufferReader ==
    /\ ~halted
    /\ codec.phase = "write"
    /\ codec.ok
    /\ codec' = [codec EXCEPT !.phase = "read", !.rcurrent = 0,
                              !.rend = codec.current, !.idx = 1]
    /\ UNCHANGED <<p, st, op, transfers, scheduled, stack, halted, ev,
                   cancelReq, reading>>

\* the reader takes the next written field with the method that reads it
ReaderStep ==
    /\ ~halted
    /\ codec.phase = "read"
    /\ codec.idx <= Len(codec.log)
    /\ LET f == codec.log[codec.idx]
           K0 == Cursor(codec.mem, codec.rcurrent, codec.rend)
           K == ReaderOp(K0, f)
       IN  codec' = [codec EXCEPT !.rcurrent = K.current, !.idx = @ + 1,
                                  !.last = Did("read", f, K0, K)]
    /\ UNCHANGED <<p, st, op, transfers, scheduled, stack, halted, ev,
                   cancelReq, reading>>

\* the reader goes on reading after the last written field
ReaderPast(f) ==
    /\ ~halted
    /\ codec.phase = "read"
    /\ codec.idx > Len(codec.log)
    /\ LET K0 == Cursor(codec.mem, codec.rcurrent, codec.rend)
           K == ReaderOp(K0, f)
       IN  codec' = [codec EXCEPT !.phase = "done", !.rcurrent = K.current,
                                  !.last = Did("past", f, K0, K)]
    /\ UNCHANGED <<p, st, op, transfers, scheduled, stack, halted, ev,
                   cancelReq, reading>>

\* -------------------------------------------------------------------- Next
Waits == {"untilDisabled", "untilReady", "untilReadyOrDisabled", "untilStateChanged"}

\* sizes around the limits: negative, empty, small, CancelLimit
TransferSizes == {-1, 0, 1, CancelLimit}

\* two coroutines share one buffer of the device and use its transfer calls
Next ==
    \/ \E t \in Tasks : TaskRun(t)
    \/ \E t \in Tasks : Yield(t)
    \/ \E t \in Tasks, n \in TransferSizes : SetHeader(t, "b1", 0, n)
    \/ \E t \in Tasks, via \in Waits : Until(t, "b1", via)
    \/ \E t \in Tasks : AwaitStep(t)
    \/ ResumeNext
    \/ Return
    \/ \E t \in Tasks, o \in {OP_WRITE, OP_ERASE}, aw \in BOOLEAN : Start(t, "b1", o, aw)
    \/ \E t \in Tasks, n \in TransferSizes, aw \in BOOLEAN :
          StartSize(t, "b1", n, OP_WRITE, aw)
    \/ \E t \in Tasks : Cancel(t, "b1")
    \/ \E t \in Tasks : Acquire(t, "b1")
    \/ Handle
    \/ DeviceSetDisabled("b1")
    \/ DeviceSetReady("b1")

\* header sizes set on the large buffer
LargeHeaders == {1, HeaderBits}

\* one coroutine uses every layout and transfer call of one buffer
NextLayout ==
    \/ TaskRun("t1")
    \/ Yield("t1")
    \/ \E n \in SizeArgs : HeaderResize("t1", "b2", n)
    \/ \E v \in Bytes, n \in SizeArgs : SetHeader("t1", "b2", v, n)
    \/ \E v \in Bytes, k \in 1..(SmallCapacity + 1) : SetHeaderValue("t1", "b2", v, k)
    \/ ClearHeader("t1", "b2")
    \/ \E n \in LargeHeaders : HeaderResize("t1", "b3", n)
    \/ \E n \in LargeHeaders : SetHeader("t1", "b3", 0, n)
    \/ \E n \in SizeArgs : GetHeader("t1", "b2", n)
    \/ \E i \in IndexArgs : Index("t1", "b2", i)
    \/ \E n \in SizeArgs : Resize("t1", "b2", n)
    \/ Clear("t1", "b2")
    \/ AwaitStep("t1")
    \/ ResumeNext
    \/ Return
    \/ \E aw \in BOOLEAN : Start("t1", "b2", OP_WRITE, aw)
    \/ \E n \in SizeArgs, aw \in BOOLEAN : StartSize("t1", "b2", n, OP_WRITE, aw)
    \/ \E e \in SizeArgs, aw \in BOOLEAN : StartEnd("t1", "b2", e, OP_WRITE, aw)
    \/ \E v \in Bytes, n \in SizeArgs : WriteData("t1", "b2", v, n)
    \/ \E n \in SizeArgs, d \in Dsts : ReadData("t1", "b2", n, d)
    \/ ReadCopy("t1")
    \/ \E k \in 0..(SmallCapacity + 1) : WriteWriter("t1", "b2", k)
    \/ \E v \in Bytes, k \in 1..(SmallCapacity + 1) : WriteValue("t1", "b2", v, k)
    \/ \E v \in Bytes, k \in 0..(SmallCapacity + 1) : WriteArray("t1", "b2", v, k)
    \/ Handle
    \/ DeviceSetDisabled("b2")
    \/ DeviceSetReady("b2")

\* two coroutines wait on a device and on one of its buffers while the
\* device opens and closes and the buffer transfers
NextDevice ==
    \/ \E t \in Tasks : TaskRun(t)
    \/ \E t \in Tasks : Yield(t)
    \/ \E t \in Tasks, via \in Waits : DevUntil(t, via)
    \/ \E t \in Tasks, via \in Waits : Until(t, "b1", via)
    \/ \E t \in Tasks : AwaitStep(t)
    \/ ResumeNext
    \/ Return
    \/ \E t \in Tasks, aw \in BOOLEAN : Start(t, "b1", OP_WRITE, aw)
    \/ \E t \in Tasks : Cancel(t, "b1")
    \/ Handle
    \/ DeviceSetDisabled("b1")
    \/ DeviceSetReady("b1")
    \/ DevOpen
    \/ DevOpened
    \/ DevOpenFailed
    \/ DevClose
    \/ DevClosed

Spec == Init /\ [][Next]_vars

SpecDevice == InitDevice /\ [][NextDevice]_vars

SpecLayout == Init /\ [][NextLayout]_vars

\* two coroutines use two buffers of the device, whose transfers share the
\* queue of the device
NextQueue ==
    \/ \E t \in Tasks : TaskRun(t)
    \/ \E t \in Tasks : Yield(t)
    \/ \E t \in Tasks, b \in {"b1", "b2"}, via \in {"untilReady", "untilStateChanged"} :
          Until(t, b, via)
    \/ ResumeNext
    \/ Return
    \/ \E t \in Tasks, b \in {"b1", "b2"} : Start(t, b, OP_WRITE, FALSE)
    \/ \E t \in Tasks : StartSize(t, "b1", CancelLimit, OP_WRITE, FALSE)
    \/ \E t \in Tasks, b \in {"b1", "b2"} : Cancel(t, b)
    \/ \E t \in Tasks : Erase(t, "b2")
    \/ \E t \in Tasks : AwaitStep(t)
    \/ Handle

SpecQueue == Init /\ [][NextQueue]_vars

NextCodec ==
    \/ \E n \in {1, MaxRegion}, junk \in {0, 3} : NewBufferWriter(n, junk)
    \/ \E f \in Fields : WriterStep(f)
    \/ NewBufferReader
    \/ ReaderStep
    \/ \E o \in {"u8", "u16L", "u32B", "string8", "skip"} :
          ReaderPast(Field(o, 0, 0, <<>>, 1))

SpecCodec == Init /\ [][NextCodec]_vars

\* the event loop runs every scheduled callback, a notifying call resumes
\* its waiters and returns, and a running coroutine comes to a suspension
\* point
Fairness ==
    /\ SF_vars(Handle)
    /\ WF_vars(ResumeNext)
    /\ WF_vars(Return)
    /\ \A t \in Tasks : WF_vars(AwaitStep(t))
    /\ \A t \in Tasks : SF_vars(Yield(t))

LiveSpec == Init /\ [][Next]_vars /\ Fairness

LiveQueue == Init /\ [][NextQueue]_vars /\ Fairness

\* ------------------------------------------------------------------ claims
\* the calls that start a transfer
StartCalls == {"start", "startSize", "startEnd", "writeData", "readData", "writeValue"}

\* the number of times buffer b is in the transfer queue
Queued(b) == Cardinality({i \in DOMAIN transfers : transfers[i] = b})

\* C1: the stored fields of every buffer always satisfy
\* 0 <= headerSize <= size <= capacity, so size() is never negative and never
\* exceeds capacity()
C1_LayoutInvariant ==
    \A b \in Buffers :
        /\ 0 <= p[b].headerSize
        /\ p[b].headerSize <= p[b].size
        /\ p[b].size <= p[b].capacity

\* headerResize within the capacity left the header larger than the stored size
C1_Witness ==
    /\ ev.f = "headerResize" /\ ev.b = "b2" /\ ~ev.failed
    /\ p["b2"].headerSize > p["b2"].size

\* C2: the state of a buffer changes only along DISABLED->READY,
\* READY->DISABLED, READY->BUSY (by an accepted start) and BUSY->READY (by the
\* handler's completion or by cancel); the handler never completes a buffer
\* that is not BUSY
C2_StateEdges ==
    [][\A b \in Buffers :
          /\ st'[b].state # st[b].state =>
                \/ st[b].state = DISABLED /\ st'[b].state = READY
                \/ st[b].state = READY /\ st'[b].state = DISABLED
                \/ /\ st[b].state = READY /\ st'[b].state = BUSY
                   /\ ev'.f \in StartCalls /\ ev'.b = b /\ ev'.val = "true"
                \/ /\ st[b].state = BUSY /\ st'[b].state = READY
                   /\ ev'.f \in {"handle", "cancel", "acquire"} /\ ev'.b = b
          /\ (ev'.f = "handle" /\ ev'.b = b) => st[b].state = BUSY]_vars

\* a cancel took a BUSY buffer back to READY
C2_Witness ==
    /\ ev.f = "cancel" /\ ev.b = "b1" /\ ev.pre = BUSY
    /\ st["b1"].state = READY

\* C3: start with a READ and/or WRITE direction on a READY buffer returns
\* true, leaves the buffer BUSY and in the transfer queue; start returns
\* true only when the buffer was READY at the call
C3_StartAccepted ==
    ev.f \in StartCalls =>
        /\ ev.val = "true" => ev.pre = READY
        /\ (ev.pre = READY /\ ~ev.failed) =>
              /\ ev.val = "true"
              /\ st[ev.b].state = BUSY
              /\ Queued(ev.b) = 1

\* a start on a READY buffer was accepted
C3_Witness ==
    /\ ev.f = "start" /\ ev.pre = READY /\ ev.val = "true"
    /\ st["b1"].state = BUSY

C5_StartWhileDisabled ==
    [][(ev'.f \in StartCalls /\ ev'.pre = DISABLED) =>
          /\ ev'.val = "false"
          /\ p' = p
          /\ st' = st
          /\ transfers' = transfers]_vars

\* start(size, op) returned false on a DISABLED buffer and stored a size
C5_Witness ==
    /\ ev.f = "startSize" /\ ev.b = "b2" /\ ev.pre = DISABLED /\ ev.val = "false"
    /\ st["b2"].state = DISABLED
    /\ p["b2"].size > 0

\* C6: a completion reported with transferred count n leaves the buffer
\* READY with size() = n, for every header size
C6_CompletionSize ==
    /\ ev.done => (st[ev.b].state = READY /\ Size(ev.b) = ev.n)
    /\ \A b \in Buffers : \A n \in 0..Min(p[b].capacity, MaxCapacity) :
          LET q == setReadyTransferred(p[b], n)
          IN q.size - q.headerSize = n

\* a cancel completed a transfer of a buffer that has a header
C6_Witness ==
    /\ ev.done /\ ev.n = 0 /\ ev.f = "cancel" /\ ev.pre = BUSY
    /\ p[ev.b].headerSize > 0

\* C7: when a buffer on which cancel() was called leaves BUSY, its size() is
\* 0 (by the accepted cancel) or what the transfer had (by the handler's
\* completion, as without the cancel)
C7_CancelSize ==
    [][\A b \in Buffers :
          /\ (ev'.f \in {"cancel", "acquire"} /\ ev'.b = b /\ st'[b].state = BUSY) =>
                p'[b] = p[b]
          /\ (/\ st[b].state = BUSY
              /\ st'[b].state # BUSY
              /\ (cancelReq[b] \/ (ev'.f \in {"cancel", "acquire"} /\ ev'.b = b))) =>
                IF ev'.f = "handle"
                THEN Size(b)' = Size(b)
                ELSE Size(b)' = 0]_vars

\* the handler completed a transfer on which a cancel had no effect
C7_Witness ==
    /\ ev.f = "handle" /\ ev.b = "b1" /\ cancelReq["b1"]
    /\ Size("b1") > 0

\* C8: a buffer that is BUSY when cancel() is called eventually leaves BUSY
\* (or the program was aborted by an assertion)
C8_CancelSettles ==
    \A b \in {"b1"} :
        (cancelReq[b] /\ st[b].state = BUSY) ~> (st[b].state # BUSY \/ halted)

\* a cancel was called on a BUSY buffer and had no effect
C8_Witness ==
    /\ ev.f \in {"cancel", "acquire"} /\ ev.b = "b1" /\ ev.val = "true"
    /\ st["b1"].state = BUSY /\ cancelReq["b1"]

\* C9: acquire() does not suspend exactly when the buffer is READY or
\* DISABLED after its cancel, and a coroutine suspended in acquire() finds the
\* buffer not BUSY when it is resumed
C9_AcquireResumed ==
    /\ (ev.f = "await" /\ ev.via = "acquire") =>
          (ev.val = "ready" <=> ev.pre \in {READY, DISABLED})
    /\ (ev.f = "resume" /\ ev.via = "acquire") => st[ev.b].state # BUSY

\* a coroutine suspended in acquire() is resumed while the buffer is BUSY again
C9_Witness ==
    /\ ev.f = "resume" /\ ev.via = "acquire" /\ ev.b = "b1"
    /\ st["b1"].state = BUSY
    /\ "b1" \in {transfers[i] : i \in DOMAIN transfers}

\* C10: a transfer-starting call on a BUSY buffer is rejected and changes
\* neither the size nor a data byte of the transfer in flight
C10_BusyLocks ==
    [][(ev'.f \in StartCalls /\ ev'.pre = BUSY) =>
          /\ ev'.val # "true"
          /\ p'[ev'.b].size = p[ev'.b].size
          /\ p'[ev'.b].data = p[ev'.b].data]_vars

\* writeData returned false on a BUSY buffer whose transfer has another size
\* than the call stored
C10_Witness ==
    /\ ev.f = "writeData" /\ ev.b = "b2" /\ ev.pre = BUSY /\ ev.val = "false"
    /\ st["b2"].state = BUSY
    /\ Size("b2") = 1
    /\ p["b2"].data[p["b2"].headerSize] = 1

\* the states an until-call waits for, on a buffer and on the device
Awaited(k, via) ==
    IF k = Dev
    THEN CASE via = "untilReady" -> {DEV_READY}
           [] via = "untilDisabled" -> {DEV_DISABLED}
           [] OTHER -> {DEV_READY, DEV_DISABLED}
    ELSE CASE via = "untilReady" -> {READY}
           [] via = "untilDisabled" -> {DISABLED}
           [] OTHER -> {READY, DISABLED}

\* the ENTER_* events of a set of states
RECURSIVE MaskOf(_)
MaskOf(S) ==
    IF S = {} THEN 0
    ELSE LET s == CHOOSE x \in S : TRUE IN EnterEvent(s) + MaskOf(S \ {s})

\* the registered coroutines of list k whose mask has the event of state s
Interested(k, s) ==
    {st[k].tasks[i].task : i \in {j \in DOMAIN st[k].tasks :
        (st[k].tasks[j].events \div EnterEvent(s)) % 2 = 1}}

\* C11: untilReady(), untilDisabled() and untilReadyOrDisabled() of a buffer
\* and of the device return without suspending exactly when the state is one
\* they wait for; otherwise the caller is registered last in the waiter list
\* with exactly the ENTER_* events of those states, is not running while it
\* is registered, leaves the list only by being resumed, and is resumed only
\* by a notification of one of its events
C11_UntilSuspends ==
    [][/\ (ev'.f = "await"
           /\ ev'.via \in {"untilReady", "untilDisabled", "untilReadyOrDisabled"}) =>
             LET k == ev'.b
                 t == Top.who
             IN IF st[k].state \in Awaited(k, ev'.via)
                THEN /\ ev'.val = "ready"
                     /\ st' = st
                     /\ stack' = stack
                ELSE /\ ev'.val = "suspended"
                     /\ st'[k].tasks =
                          Append(st[k].tasks,
                                 [task |-> t, events |-> MaskOf(Awaited(k, ev'.via)),
                                  via |-> ev'.via])
                     /\ \A j \in Lists \ {k} : st'[j] = st[j]
                     /\ t \notin {stack'[i].who : i \in DOMAIN stack'}
       /\ \A k \in Lists : \A t \in Tasks :
             /\ (t \in Waiting(k))' => t \notin {stack'[i].who : i \in DOMAIN stack'}
             /\ (t \in Waiting(k) /\ ~(t \in Waiting(k))') =>
                   /\ ev'.f = "resume" /\ ev'.val = t /\ ev'.b = k
                   /\ t \in Top.pending
             /\ (stack' # <<>> /\ st'[k].state # st[k].state
                 /\ stack'[Len(stack')].nbuf = k
                 /\ t \in stack'[Len(stack')].pending) =>
                   \E i \in DOMAIN st[k].tasks :
                       /\ st[k].tasks[i].task = t
                       /\ (st[k].tasks[i].events \div EnterEvent(st'[k].state)) % 2 = 1]_vars

\* a coroutine is suspended in Device::untilReadyOrDisabled() while the device
\* is opening
C11_Witness ==
    /\ ev.f = "await" /\ ev.b = Dev /\ ev.via = "untilReadyOrDisabled"
    /\ ev.val = "suspended" /\ st[Dev].state = DEV_OPENING
    /\ Len(st[Dev].tasks) = 2

C13_ResumedObserves ==
    (ev.f = "resume" /\ ev.b \in Buffers) =>
        st[ev.b].state \in
            (IF ev.via = "untilStateChanged" THEN {DISABLED, READY, BUSY}
             ELSE Awaited(ev.b, ev.via))

\* a coroutine suspended in untilReady() is resumed while the buffer is BUSY
C13_Witness ==
    /\ ev.f = "resume" /\ ev.via = "untilReady" /\ ev.b = "b1"
    /\ st["b1"].state = BUSY

\* C14 (as stated): whenever the device is not READY, every buffer of it
\* reads DISABLED
C14_DeviceNotReady ==
    st[Dev].state # DEV_READY => \A b \in Buffers : st[b].state = DISABLED

\* C14 (amended): a buffer constructed from the device state is DISABLED when
\* the device is DISABLED or CLOSING and READY when it is OPENING or READY
C14_Constructed ==
    ev.f = "construct" =>
        \A b \in Buffers :
            st[b].state = (IF ev.n \in {DEV_DISABLED, DEV_CLOSING} THEN DISABLED ELSE READY)

\* a buffer constructed for an opening device is READY
C14_Witness ==
    /\ ev.f = "construct" /\ ev.n = DEV_OPENING
    /\ st[Dev].state = DEV_OPENING
    /\ st["b1"].state = READY

HeaderCalls == {"headerResize", "setHeader", "setHeaderValue"}

\* the calls that write a source array to the data region of a buffer
WriteCalls == {"writeData", "writeValue", "writeArray"}

\* C16: after a call that sets the header size to h, 0 <= h <= total
\* capacity, capacity() is the total capacity minus h
C16_HeaderCapacity ==
    (ev.f \in HeaderCalls /\ ~ev.failed
     /\ ev.arg >= 0 /\ ev.arg <= p[ev.b].capacity) =>
        Capacity(ev.b) = p[ev.b].capacity - ev.arg

\* headerResize(65536) on a buffer of 65536 bytes left capacity() at 65536
C16_Witness ==
    /\ ev.f = "headerResize" /\ ev.b = "b3" /\ ev.arg = HeaderBits
    /\ ~ev.failed /\ ~halted
    /\ Capacity("b3") = HeaderBits

\* C17: setHeader, headerResize and clearHeader clear the buffer: size() is 0
\* after the call
C17_HeaderClears ==
    (ev.f \in HeaderCalls \cup {"clearHeader"} /\ ~ev.failed) => Size(ev.b) = 0

\* clearHeader() left two bytes of data in the buffer
C17_Witness ==
    /\ ev.f = "clearHeader" /\ ev.b = "b2"
    /\ p["b2"].headerSize = 0
    /\ Size("b2") = SmallCapacity

\* C18: after setHeader with a header of n <= total capacity bytes,
\* headerSize() is n, the n bytes before data() are the header and header<T>()
\* reads the header back from the start of the memory
C18_HeaderReadBack ==
    (ev.f \in {"setHeader", "setHeaderValue"} /\ ~ev.failed
     /\ ev.arg >= 0 /\ ev.arg <= p[ev.b].capacity) =>
        /\ p[ev.b].headerSize = ev.arg
        /\ \A i \in DOMAIN p[ev.b].data :
              i < ev.arg =>
                 /\ (p[ev.b].headerSize - ev.arg + i) \in DOMAIN p[ev.b].data
                 /\ p[ev.b].data[p[ev.b].headerSize - ev.arg + i] = Source(ev.v)[i]
                 /\ p[ev.b].data[i] = Source(ev.v)[i]

\* setHeader of 65536 bytes on a buffer of 65536 bytes left headerSize() at 0
C18_Witness ==
    /\ ev.f = "setHeader" /\ ev.b = "b3" /\ ev.arg = HeaderBits
    /\ p["b3"].headerSize = 0

\* C19: getHeader(out, n) returns min(n, headerSize()) for n >= 0, copies
\* exactly the first that many bytes of the header and reads inside the
\* header region only
C19_GetHeader ==
    (ev.f = "getHeader" /\ ev.arg >= 0) =>
        LET hs == p[ev.b].headerSize
            n == IF ev.arg > hs THEN hs ELSE ev.arg
        IN /\ ev.n = n
           /\ Len(ev.out) = n
           /\ \A i \in 1..n : ev.out[i] = p[ev.b].data[i - 1]
           /\ n > 0 => (ev.src >= 0 /\ ev.src + n <= hs)

\* getHeader of a two byte header read from two bytes before the memory and
\* delivered other bytes than the header
C19_Witness ==
    /\ ev.f = "getHeader" /\ ev.b = "b2" /\ ev.arg = SmallCapacity
    /\ p["b2"].headerSize = SmallCapacity
    /\ ev.n = SmallCapacity
    /\ ev.src = 0 - SmallCapacity
    /\ \E i \in 1..SmallCapacity : ev.out[i] # p["b2"].data[i - 1]

\* C20: after a write call with a source of n bytes, 0 <= n <= capacity(),
\* size() is n and data()[0..n) is the source, for every header size
C20_WriteStores ==
    (ev.f \in WriteCalls /\ ev.arg >= 0 /\ ev.arg <= Capacity(ev.b)) =>
        /\ Size(ev.b) = ev.arg
        /\ \A i \in 0..(ev.arg - 1) :
              p[ev.b].data[p[ev.b].headerSize + i] = Source(ev.v)[i]

\* writeData stored one byte behind a one byte header
C20_Witness ==
    /\ ev.f = "writeData" /\ ev.b = "b2" /\ ev.arg = 1 /\ ev.v = 1
    /\ p["b2"].headerSize = 1 /\ p["b2"].size = 2
    /\ p["b2"].data[0] = 0 /\ p["b2"].data[1] = 1

\* C21: writeData(src, n) with n > capacity() leaves size() at capacity(),
\* stores the first capacity() source bytes in the data region and changes no
\* byte of the memory outside of the data region, the byte behind the buffer
\* included
C21_WriteClamped ==
    [][(ev'.f = "writeData"
        /\ ev'.arg > p[ev'.b].capacity - p[ev'.b].headerSize) =>
          LET b == ev'.b
              hs == p[b].headerSize
              cap == p[b].capacity - hs
          IN /\ p'[b].headerSize = hs
             /\ p'[b].size - p'[b].headerSize = cap
             /\ \A i \in 0..(cap - 1) : p'[b].data[hs + i] = Source(ev'.v)[i]
             /\ \A i \in DOMAIN p[b].data :
                   (i < hs \/ i >= p[b].capacity) => p'[b].data[i] = p[b].data[i]]_vars

\* writeData of three bytes filled the one byte behind a one byte header
C21_Witness ==
    /\ ev.f = "writeData" /\ ev.b = "b2" /\ ev.arg = SmallCapacity + 1 /\ ev.v = 1
    /\ p["b2"].headerSize = 1 /\ p["b2"].size = SmallCapacity
    /\ p["b2"].data[SmallCapacity - 1] = 1

\* C22: a write call changes neither headerSize() nor a byte of the header,
\* whatever size is requested
C22_WriteKeepsHeader ==
    [][ev'.f \in WriteCalls =>
          /\ p'[ev'.b].headerSize = p[ev'.b].headerSize
          /\ \A i \in 0..(p[ev'.b].headerSize - 1) :
                p'[ev'.b].data[i] = p[ev'.b].data[i]]_vars

\* writeValue stored a byte 0 behind a header byte 1
C22_Witness ==
    /\ ev.f = "writeValue" /\ ev.b = "b2" /\ ev.arg = 1 /\ ev.v = 0
    /\ p["b2"].headerSize = 1 /\ p["b2"].size = 2
    /\ p["b2"].data[0] = 1 /\ p["b2"].data[1] = 0

C24_ResizeClamps ==
    (ev.f = "resize" /\ ~halted) =>
        Size(ev.b) = Min(IF ev.arg < 0 THEN 0 ELSE ev.arg, Capacity(ev.b))

\* resize(-1) on a buffer with a one byte header left size() at -1
C24_Witness ==
    /\ ev.f = "resize" /\ ev.b = "b2" /\ ev.arg = 0 - 1
    /\ ~ev.failed /\ ~halted
    /\ p["b2"].headerSize = 1
    /\ Size("b2") = 0 - 1

\* C25: after headerResize(n), headerSize() is min(max(n, 0), total capacity)
\* for every n and every total capacity
C25_HeaderResizeClamps ==
    (ev.f = "headerResize" /\ ~halted) =>
        p[ev.b].headerSize =
            Min(IF ev.arg < 0 THEN 0 ELSE ev.arg, p[ev.b].capacity)

\* headerResize(-1) without the assertion set the header size to the capacity
C25_Witness ==
    /\ ev.f = "headerResize" /\ ev.b = "b2" /\ ev.arg = 0 - 1
    /\ ev.failed /\ ~halted
    /\ p["b2"].headerSize = SmallCapacity

\* C26 (as stated): buffer[i] is accepted exactly for i in
\* [-headerSize, size - headerSize)
C26_IndexWithinSize ==
    ev.f = "index" =>
        (~ev.failed <=> (ev.arg >= 0 - p[ev.b].headerSize /\ ev.arg < Size(ev.b)))

\* C26 (amended): buffer[i] is accepted exactly for i in
\* [-headerSize, capacity()), where it returns the byte at offset
\* headerSize + i of the memory; any other index violates the assertion
C26_IndexRange ==
    ev.f = "index" =>
        /\ ~ev.failed <=>
              (ev.arg >= 0 - p[ev.b].headerSize /\ ev.arg < Capacity(ev.b))
        /\ ~ev.failed => ev.n = p[ev.b].data[p[ev.b].headerSize + ev.arg]

\* buffer[1] of an empty buffer of capacity 2 was accepted
C26_Witness ==
    /\ ev.f = "index" /\ ev.b = "b2" /\ ev.arg = 1 /\ ~ev.failed
    /\ p["b2"].headerSize = 0 /\ Size("b2") = 0

\* C30: after a BufferWriter over buffer.all() wrote k <= capacity() bytes,
\* buffer.write(w) sets size() to k for every header size and a BufferReader
\* over the buffer starts at data() with remaining() = k
C30_WriterSize ==
    (ev.f = "writeWriter" /\ ev.arg >= 0 /\ ev.arg <= Capacity(ev.b)) =>
        LET r == BufferReaderOf(p[ev.b])
        IN /\ Size(ev.b) = ev.arg
           /\ r.current = p[ev.b].headerSize
           /\ r.end - r.current = ev.arg

\* buffer.write(w) after one byte written behind a one byte header
C30_Witness ==
    /\ ev.f = "writeWriter" /\ ev.b = "b2" /\ ev.arg = 1
    /\ p["b2"].headerSize = 1 /\ p["b2"].size = 2
    /\ Size("b2") = 1

\* the methods C27 names, and i16B as the big endian partner of i16L
RoundTripOps == {"u16L", "u16B", "i16L", "u32L", "u32B", "u64L", "u64B"}

Partner(o) ==
    CASE o = "u16L" -> "u16B" [] o = "u16B" -> "u16L"
      [] o = "i16L" -> "i16B" [] o = "i16B" -> "i16L"
      [] o = "u32L" -> "u32B" [] o = "u32B" -> "u32L"
      [] o = "u64L" -> "u64B" [] o = "u64B" -> "u64L"

Reverse(s) == [i \in 1..Len(s) |-> s[Len(s) + 1 - i]]

\* the bytes the writer method of the field f produces
Encoding(f) ==
    LET K == WriterOp(Cursor([i \in 0..7 |-> 0], 0, 8), f, TRUE)
    IN  [i \in 1..K.current |-> K.mem[i - 1]]

\* the bytes the last write left in the array
Written ==
    [i \in 1..(codec.last.after - codec.last.at) |->
        codec.mem[codec.last.at + i - 1]]

\* C27: a value written with u16L, u16B, i16L, u32L, u32B, u64L or u64B and
\* read from the same bytes with the BufferReader method of the same name
\* comes back unchanged, and the bytes written by the little endian method
\* are those of the big endian method in reverse order.
C27_RoundTrip ==
    /\ (codec.last.kind = "read" /\ codec.last.f.op \in RoundTripOps)
          => /\ codec.last.x = codec.last.f.x
             /\ codec.last.hi = codec.last.f.hi
    /\ (codec.last.kind = "write" /\ codec.last.f.op \in RoundTripOps)
          => Written = Reverse(Encoding([codec.last.f EXCEPT !.op = Partner(@)]))

C27_Witness ==
    /\ codec.last.kind = "read"
    /\ codec.last.f.op = "u64B"
    /\ codec.last.f.x = 0 - 1163015426 /\ codec.last.f.hi = 0
    /\ codec.last.x = 0 - 1163015426 /\ codec.last.hi = 0
    /\ \E i \in DOMAIN codec.log : codec.log[i].op = "i16L" /\ codec.log[i].x = 0 - 50

\* the encoded width of a field
FieldWidth(f) ==
    CASE f.op = "u8" -> 1
      [] f.op \in {"i16L", "i16B", "u16L", "u16B"} -> 2
      [] f.op = "u24B" -> 3
      [] f.op \in {"u32L", "u32B"} -> 4
      [] f.op \in {"u64L", "u64B"} -> 8
      [] f.op = "string8" -> 1 + Len(f.s)
      [] f.op \in {"string", "data", "fill", "skip"} -> f.n
      [] f.op \in {"value", "array"} -> Len(f.s)

RECURSIVE WidthSum(_)
WidthSum(log) ==
    IF log = <<>> THEN 0 ELSE FieldWidth(Head(log)) + WidthSum(Tail(log))

\* C28: a write or read that does not fail advances the cursor by the encoded
\* width of its field, the writer's cursor is the sum of the widths of the
\* fields written, and the reader that has taken every written field has
\* remaining() == 0.
C28_Advance ==
    /\ (codec.last.kind \in {"write", "read"} /\ ~codec.last.failed)
          => codec.last.after = codec.last.at + FieldWidth(codec.last.f)
    /\ (codec.phase = "write" /\ codec.ok)
          => codec.current = WidthSum(codec.log)
    /\ (codec.phase = "read" /\ codec.idx > Len(codec.log))
          => codec.rend - codec.rcurrent = 0

C28_Witness ==
    /\ codec.phase = "read" /\ codec.idx > Len(codec.log)
    /\ Len(codec.log) = MaxFields
    /\ codec.log[1].op = "string8" /\ Len(codec.log[1].s) = 2
    /\ codec.log[2].op = "string" /\ codec.log[2].n = 3
    /\ codec.rcurrent = 6 /\ codec.rend = 6
    /\ codec.last.s = <<97, 0, 0>>

\* C29: an operation that would move the cursor past end fails, accesses no
\* byte at or beyond end and leaves the cursor at or before end.
C29_NoOverrun ==
    (/\ codec.last.kind \in {"write", "read", "past"}
     /\ codec.last.at <= codec.last.end
     /\ codec.last.at + FieldWidth(codec.last.f) > codec.last.end)
        => /\ codec.last.failed
           /\ \A i \in codec.last.touched : i < codec.last.end
           /\ codec.last.after <= codec.last.end

\* data() of more bytes than remain is refused and leaves the cursor alone
C29_Witness ==
    /\ codec.last.kind = "write" /\ codec.last.f.op = "data"
    /\ codec.last.f.n = 2 /\ codec.last.end = 1
    /\ codec.last.failed
    /\ codec.last.after = codec.last.at
    /\ codec.last.touched = {}

\* C31: cancel() returns true exactly when the call cancelled a transfer,
\* that is when it was called on a BUSY buffer and left it READY with
\* size() == 0
C31_CancelResult ==
    ev.f = "cancel" =>
        (ev.val = "true" <=>
            /\ ev.pre = BUSY
            /\ ev.done
            /\ st[ev.b].state = READY
            /\ Size(ev.b) = 0)

\* cancel() returned true and the transfer of CancelLimit bytes goes on
C31_Witness ==
    /\ ev.f = "cancel" /\ ev.b = "b1" /\ ev.val = "true" /\ ~ev.done
    /\ st["b1"].state = BUSY
    /\ Size("b1") = CancelLimit
    /\ Queued("b1") = 1

\* C32: erase(), that is start(Op::ERASE), on a READY buffer violates no
\* assertion, returns true and leaves the buffer BUSY
C32_EraseStarts ==
    (ev.f = "erase" /\ ev.pre = READY) =>
        /\ ~ev.failed
        /\ ~halted
        /\ ev.val = "true"
        /\ st[ev.b].state = BUSY

\* the assertion of start stopped the program at erase()
C32_Witness ==
    /\ ev.f = "erase" /\ ev.b = "b2" /\ ev.pre = READY
    /\ ev.failed /\ halted
    /\ st["b2"].state = READY
    /\ transfers = <<>>

\* C33: cancel() on a BUSY buffer whose stored size is below CancelLimit
\* removes it from the transfer queue and leaves it READY with size() == 0;
\* with a larger stored size it changes neither state, size nor queue, and
\* only the handler takes such a buffer out of BUSY
C33_CancelSmall ==
    [][/\ (ev'.f \in {"cancel", "acquire"} /\ ev'.pre = BUSY) =>
             IF p[ev'.b].size < CancelLimit
             THEN /\ \A i \in DOMAIN transfers' : transfers'[i] # ev'.b
                  /\ st'[ev'.b].state = READY
                  /\ p'[ev'.b].size - p'[ev'.b].headerSize = 0
             ELSE /\ st' = st
                  /\ p' = p
                  /\ transfers' = transfers
       /\ \A b \in Buffers :
             (/\ st[b].state = BUSY
              /\ ~(p[b].size < CancelLimit)
              /\ st'[b].state # BUSY) => (ev'.f = "handle" /\ ev'.b = b)]_vars

\* a transfer of a header byte and two data bytes was cancelled at once
C33_Witness ==
    /\ ev.f = "cancel" /\ ev.b = "b1" /\ ev.pre = BUSY /\ ev.done
    /\ p["b1"].headerSize = 1
    /\ st["b1"].state = READY
    /\ Size("b1") = 0
    /\ transfers = <<>>

\* C34: a buffer is BUSY exactly when it is in the transfer queue of the
\* device, and it is in the queue at most once
C34_BusyIffQueued ==
    \A b \in Buffers :
        /\ Queued(b) <= 1
        /\ st[b].state = BUSY <=> Queued(b) = 1

\* a coroutine resumed by the setBusy() of b2 runs while both buffers are
\* BUSY and queued
C34_Witness ==
    /\ ev.f = "resume" /\ ev.b = "b2" /\ ev.via = "untilStateChanged"
    /\ stack # <<>> /\ Top.who \in Tasks
    /\ st["b1"].state = BUSY /\ st["b2"].state = BUSY
    /\ transfers = <<"b1", "b2">>

\* C35: whenever the transfer queue is not empty, and so whenever a buffer
\* is BUSY, the handler callback is scheduled on the event loop
C35_HandlerScheduled ==
    /\ transfers # <<>> => scheduled
    /\ \A b \in Buffers : st[b].state = BUSY => scheduled

\* a coroutine resumed by the completion of b1 started b1 again from within
\* the handler, with the queue empty
C35_Witness ==
    /\ ev.f = "start" /\ ev.b = "b1" /\ ev.val = "true"
    /\ stack # <<>> /\ stack[1].who = Handler
    /\ transfers = <<"b1">>
    /\ scheduled

\* buffer b is in the queue seq, and its position there
InQueue(seq, b) == \E i \in DOMAIN seq : seq[i] = b

Pos(seq, b) == CHOOSE i \in DOMAIN seq : seq[i] = b

\* C36: transfers complete in the order of their starts: a start puts its
\* buffer behind every buffer that is BUSY, no step changes the order of
\* two queued buffers, the handler completes the buffer started first and
\* no other buffer, and of two BUSY buffers the one started later leaves
\* BUSY first only by a cancel
C36_Fifo ==
    [][/\ (ev'.f = "handle" /\ ev'.done) =>
             /\ transfers # <<>>
             /\ ev'.b = Head(transfers)
             /\ \A b \in Buffers : b # ev'.b => st'[b].state = st[b].state
       /\ \A a, b \in Buffers :
             a # b =>
                /\ (/\ st[a].state = BUSY /\ st[b].state # BUSY
                    /\ InQueue(transfers', a) /\ InQueue(transfers', b)) =>
                      Pos(transfers', a) < Pos(transfers', b)
                /\ (/\ InQueue(transfers, a) /\ InQueue(transfers, b)
                    /\ InQueue(transfers', a) /\ InQueue(transfers', b)
                    /\ Pos(transfers, a) < Pos(transfers, b)) =>
                      Pos(transfers', a) < Pos(transfers', b)
                /\ (/\ InQueue(transfers, a) /\ InQueue(transfers, b)
                    /\ Pos(transfers, a) < Pos(transfers, b)
                    /\ st'[a].state = BUSY /\ st'[b].state # BUSY) =>
                      (ev'.f = "cancel" /\ ev'.b = b)]_vars

\* b1 was started before b2 and is completed by the handler while b2 waits
C36_Witness ==
    /\ ev.f = "handle" /\ ev.done /\ ev.b = "b1"
    /\ st["b1"].state = READY /\ st["b2"].state = BUSY
    /\ transfers = <<"b2">>
    /\ Size("b1") = CancelLimit

\* C37: every accepted start is followed by one transition from BUSY to
\* READY with one ENTER_READY notification: a buffer leaves BUSY only by a
\* completion of the handler or by a cancel that took effect, a completion
\* always finds its buffer BUSY and leaves it out of the queue, it notifies
\* the coroutines registered for ENTER_READY, and a BUSY buffer eventually
\* leaves BUSY (or the program was aborted by an assertion)
C37_CompletedOnce ==
    /\ [][\A b \in {"b1", "b2"} :
            /\ (st[b].state = BUSY /\ st'[b].state # BUSY) =>
                  /\ st'[b].state = READY
                  /\ ev'.done /\ ev'.b = b
                  /\ ev'.f \in {"handle", "cancel", "acquire"}
            /\ (ev'.done /\ ev'.b = b) =>
                  /\ st[b].state = BUSY
                  /\ st'[b].state = READY
                  /\ \A i \in DOMAIN transfers' : transfers'[i] # b
                  /\ LET W == {st[b].tasks[i].task : i \in
                                 {j \in DOMAIN st[b].tasks :
                                    BitAnd(st[b].tasks[j].events, ENTER_READY) # 0}}
                     IN  W # {} =>
                            /\ stack' # <<>>
                            /\ stack'[Len(stack')].pending = W
                            /\ stack'[Len(stack')].nbuf = b]_vars
    /\ \A b \in {"b1", "b2"} :
          (st[b].state = BUSY) ~> (st[b].state # BUSY \/ halted)

\* the handler runs with an empty queue after a cancel that took effect:
\* the cancelled transfer is not completed a second time
C37_Witness ==
    /\ ev.f = "handle" /\ ~ev.done
    /\ cancelReq["b1"] /\ cancelReq["b2"]
    /\ st["b1"].state = READY /\ st["b2"].state = READY
    /\ Size("b1") = 0
    /\ transfers = <<>>
    /\ ~scheduled

\* C38: cancel() on a buffer that is READY or DISABLED returns false and
\* changes neither state, size, header size, transfer queue nor registered
\* waiters, and it notifies nobody
C38_CancelIdle ==
    [][(ev'.f \in {"cancel", "acquire"} /\ ev'.pre # BUSY) =>
          /\ ev'.val = "false"
          /\ ~ev'.done
          /\ p' = p
          /\ st' = st
          /\ transfers' = transfers
          /\ scheduled' = scheduled
          /\ stack' # <<>>
          /\ stack'[Len(stack')].pending = {}]_vars

\* cancel() returned false on a DISABLED buffer another coroutine waits for
C38_Witness ==
    /\ ev.f = "cancel" /\ ev.b = "b1" /\ ev.pre = DISABLED /\ ev.val = "false"
    /\ st["b1"].state = DISABLED
    /\ st["b1"].tasks # <<>>
    /\ p["b1"].headerSize = 1


\* the calls that start a transfer, and the two names of their awaitable
TransferCalls ==
    {"start", "startSize", "startEnd", "writeData", "readData", "writeValue",
     "writeArray", "writeWriter", "erase"}

OwnAwait == {"transfer", "refused"}

\* C39 as stated: the awaitable of a convenience call lets its caller go
\* on, at once or by a resumption, only when the call started a transfer
C39_OnlyOwnTransfer ==
    (/\ ev.via \in OwnAwait
     /\ \/ ev.f = "await" /\ ev.val = "ready"
        \/ ev.f = "resume") => ev.via = "transfer"

\* C39: a convenience transfer call (read, write, writeData, writeValue,
\* erase) whose start was accepted leaves the buffer BUSY and queued; its
\* awaitable completes without suspending only when that transfer is over
\* (the buffer is not BUSY and not queued any more), else the caller is
\* registered and only a completion of the buffer (handler or effective
\* cancel) or its disabling makes it runnable, never the ENTER_BUSY of a
\* start. A call whose start was refused started nothing: its awaitable
\* completes at once exactly when the buffer is READY or DISABLED
C39_AwaitOwnTransfer ==
    [][/\ (/\ ev'.f \in TransferCalls
           /\ stack' # <<>>
           /\ stack'[Len(stack')].cont.via \in OwnAwait) =>
              LET c == stack'[Len(stack')].cont
              IN /\ c.b = ev'.b
                 /\ c.via = "transfer" <=> (ev'.val = "true" /\ ev'.pre = READY)
                 /\ c.via = "transfer" =>
                       st'[c.b].state = BUSY /\ InQueue(transfers', c.b)
                 /\ c.via = "refused" =>
                       st' = st /\ transfers' = transfers /\ scheduled' = scheduled
       /\ (ev'.f = "await" /\ ev'.via = "transfer") =>
              /\ ev'.val = "ready" =>
                    st[ev'.b].state # BUSY /\ Queued(ev'.b) = 0
              /\ ev'.val = "suspended" => st[ev'.b].state = BUSY
       /\ (ev'.f = "await" /\ ev'.via = "refused") =>
              (ev'.val = "ready" <=> ev'.pre \in {READY, DISABLED})
       /\ (/\ ev'.f \notin {"await", "resume", "none"}
           /\ stack' # <<>>
           /\ stack'[Len(stack')].pending # {}) =>
              LET f == stack'[Len(stack')]
              IN (\E i \in DOMAIN st[f.nbuf].tasks :
                     /\ st[f.nbuf].tasks[i].task \in f.pending
                     /\ st[f.nbuf].tasks[i].via = "transfer") =>
                    \/ ev'.done /\ ev'.b = f.nbuf /\ st'[f.nbuf].state = READY
                    \/ ev'.f = "setDisabled" /\ ev'.b = f.nbuf]_vars

\* the handler completed the transfer of a write() and resumes its caller
C39_Witness ==
    /\ ev.f = "resume" /\ ev.via = "transfer" /\ ev.b = "b1"
    /\ stack[1].who = Handler /\ stack[1].nbuf = "b1"
    /\ st["b1"].state = READY
    /\ Queued("b1") = 0


\* the encoded size of a data(), value() or array() call
EncodedSize(f) == IF f.op = "data" THEN f.n ELSE Len(f.s)

\* C40: data(), value() and array() are all-or-nothing: a call whose size is
\* negative or exceeds remaining() fails, writes no byte and leaves current
\* alone; a call that fits writes exactly its bytes at current and advances
\* current by their number
C40_AllOrNothing ==
    (codec.last.kind = "write" /\ codec.last.f.op \in {"data", "value", "array"}) =>
        LET l == codec.last
            n == EncodedSize(l.f)
        IN IF n < 0 \/ n > l.end - l.at
           THEN l.failed /\ l.touched = {} /\ l.after = l.at
           ELSE /\ ~l.failed
                /\ l.after = l.at + n
                /\ l.touched = l.at..(l.at + n - 1)
                /\ \A i \in 1..n : codec.mem[l.at + i - 1] = l.f.s[i]

\* value() of one byte was written behind the end of a one-byte array, after
\* a write of two bytes had moved current past the end
C40_Witness ==
    /\ codec.last.kind = "write" /\ codec.last.f.op = "value"
    /\ codec.last.end = 1 /\ codec.last.at = 2
    /\ ~codec.last.failed
    /\ codec.last.after = 3
    /\ codec.last.touched = {2}
    /\ codec.mem[2] = 57

====
